---- MODULE Spec2Model ----
(***************************************************************************)
(* Expense splitting client (React pages) over a relational store with     *)
(* row-level policies.  Store tables are sets of rows; every page of a     *)
(* signed-in user is a small state machine whose steps are the handler's   *)
(* code between two awaited store requests.  Money is counted in cents:    *)
(* the amount inputs have step 0.01 and the money columns are              *)
(* DECIMAL(10,2).  The pages add amounts as double precision numbers: the  *)
(* Settle Up ledger is computed that way; the amounts the dashboard adds   *)
(* (1.00, 1.50, 3.00) are exact in binary, so their sums are sums of cents.*)
(*                                                                         *)
(* A row-level policy is the predicate its USING / WITH CHECK clause       *)
(* declares, evaluated on the tables.  Every store request may also fail   *)
(* (network, database error), which the handlers see as an error result:   *)
(* the parameter ok of the actions.                                        *)
(***************************************************************************)
EXTENDS Integers, Sequences, FiniteSets, TLC

\* ------------------------------------------------------------------ bounds
MaxExpenses == 2          \* at most this many expense rows are written
MaxSettlements == 1       \* at most this many settlement rows are written
MaxGroups == 2            \* at most this many groups are created
MaxFriendships == 2       \* at most this many friendships rows to start with

\* auth.users ids
Users == {1, 2, 3}
Null == 0
NoGroup == 0
Empty == -1               \* the empty string of an amount input

\* A profile row's id is a key of its own (gen_random_uuid), distinct from
\* profiles.user_id unless the row was written with id = user_id.
FreshProfileId(u) == u + 10
ProfileIds == Users \cup {FreshProfileId(u) : u \in Users}
ProfileIdChoices ==
  {f \in [Users -> ProfileIds] :
      /\ \A u \in Users : f[u] \in {u, FreshProfileId(u)}
      /\ f[1] = 1 /\ f[2] = 2}

\* what the user can type into the amount field of Add Expense (cents)
AmountInputs == {Empty, 0, 300}
\* the largest amount, in cents, of the expenses whose split is examined
MaxAmountCents == 12
SplitAmounts == 1 .. MaxAmountCents

VARIABLES
  profileId,             \* profiles: user_id -> id
  groups,                \* rows of public.groups
  group_members,         \* rows of public.group_members
  friendships,           \* rows of public.friendships
  expenses,              \* rows of public.expenses
  expense_participants,  \* rows of public.expense_participants
  settlements,           \* rows of public.settlements
  activities,            \* rows of public.activities
  user,                  \* useAuth().user.id of each browser
  page,                  \* the page each browser shows
  ae,                    \* AddExpense component state per browser
  dash,                  \* Dashboard component state per browser
  su,                    \* SettleUp component state per browser
  fr,                    \* Friends component state per browser
  gr                     \* Groups component state per browser

store == <<profileId, groups, group_members, friendships, expenses,
           expense_participants, settlements, activities>>
vars == <<profileId, groups, group_members, friendships, expenses,
          expense_participants, settlements, activities,
          user, page, ae, dash, su, fr, gr>>
Browsers == DOMAIN page

\* ------------------------------------------------------------ arithmetic
\* sum of amount_owed over a set of participant rows
RECURSIVE SumOwed(_)
SumOwed(rows) ==
  IF rows = {} THEN 0
  ELSE LET r == CHOOSE x \in rows : TRUE
       IN  r.amount_owed + SumOwed(rows \ {r})

Abs(x) == IF x < 0 THEN -x ELSE x

\* ------------------------------------------------- double precision sums
\* The Settle Up page adds amounts as IEEE 754 doubles.  A double near a
\* whole number of cents is the record [cents |-> c, err |-> E] for the
\* value c / 100 + E / (25 * 2^60): c / 100 is the decimal amount and E the
\* distance of the double from it.  Doubles in the binade of 2^e are the
\* multiples of 2^(e - 52), which is 25 * 2^(e + 8) of these units.
FZero == [cents |-> 0, err |-> 0]
FIsZero(d) == d.cents = 0 /\ d.err = 0
FNegative(d) == d.cents < 0 \/ (d.cents = 0 /\ d.err < 0)
FNeg(d) == [cents |-> -d.cents, err |-> -d.err]

RECURSIVE Pow2(_)
Pow2(n) == IF n = 0 THEN 1 ELSE 2 * Pow2(n - 1)

\* 2^n modulo 25; 2^20 is 1 modulo 25
RECURSIVE Pow2Mod25(_)
Pow2Mod25(n) ==
  IF n >= 20 THEN Pow2Mod25(n % 20)
  ELSE IF n = 0 THEN 1 ELSE (2 * Pow2Mod25(n - 1)) % 25

\* the e with 2^e <= c / 100 < 2^(e + 1), for c >= 1
RECURSIVE Exponent(_)
Exponent(c) ==
  IF c >= 200 THEN Exponent(c \div 2) + 1
  ELSE IF c < 100 THEN Exponent(2 * c) - 1
  ELSE 0

\* c / 100 is a power of two
RECURSIVE IsPowerOfTwoCents(_)
IsPowerOfTwoCents(c) ==
  c = 25 \/ (c > 25 /\ c % 2 = 0 /\ IsPowerOfTwoCents(c \div 2))

\* round to nearest, ties to even, of the exact value (c, E) with c >= 1
FRoundPositive(c, E) ==
  LET e == IF IsPowerOfTwoCents(c) /\ E < 0
           THEN Exponent(c) - 1 ELSE Exponent(c)
      j == e + 8
      ulp == 25 * Pow2(j)
      \* c * 2^58 modulo ulp and modulo 2 * ulp
      rest == Pow2(j) * (((c % 25) * Pow2Mod25(58 - j)) % 25)
      rest2 == Pow2(j + 1) * (((c % 25) * Pow2Mod25(57 - j)) % 25)
      t == (E + rest) % ulp
      lo == E - t
      hi == lo + ulp
  IN  IF 2 * t < ulp THEN [cents |-> c, err |-> lo]
      ELSE IF 2 * t > ulp THEN [cents |-> c, err |-> hi]
      ELSE IF (rest2 + lo) % (2 * ulp) = 0 THEN [cents |-> c, err |-> lo]
      ELSE [cents |-> c, err |-> hi]

\* the double nearest to the exact value (c, E); a value with c = 0 is the
\* difference of two doubles within a factor two of each other, which is a
\* double, and so is a multiple of 0.25
FRound(c, E) ==
  IF c = 0 \/ (E = 0 /\ c % 25 = 0) THEN [cents |-> c, err |-> E]
  ELSE IF c > 0 THEN FRoundPositive(c, E)
  ELSE FNeg(FRoundPositive(-c, -E))

\* x + y in double precision
FAdd(x, y) == FRound(x.cents + y.cents, x.err + y.err)

\* Number(amount_owed) of a DECIMAL(10,2) value of c cents
Number(c) == FRound(c, 0)

\* DECIMAL(10,2) stores the quotient amount / n rounded to the nearest cent,
\* halves away from zero (amount >= 0 here).  The quotient is computed in
\* double precision; for n <= 4 the stored value is the one computed here.
Decimal2Truncate(amount, n) == amount \div n
Decimal2(amount, n) == (2 * amount + n) \div (2 * n)

\* --------------------------------------------------- row-level policies
IsMember(uid, gid) ==
  \E gm \in group_members : gm.group_id = gid /\ gm.user_id = uid

\* "Users can view group members for groups they belong to"
CanViewGroupMember(uid, row) == IsMember(uid, row.group_id)

\* a variant in which the creator of a group may view it as well
CanViewGroupOrCreated(uid, g) == IsMember(uid, g.id) \/ g.created_by = uid

\* "Users can view groups they belong to"
CanViewGroup(uid, g) == IsMember(uid, g.id)

\* "Users can view expenses in their groups or paid by them"
CanViewExpense(uid, e) ==
  \/ e.paid_by = uid
  \/ IsMember(uid, e.group_id)
  \/ \E r \in expense_participants : r.expense_id = e.id /\ r.user_id = uid

\* the same policy as fix_database_policies.sql recreates it
CanViewExpenseFix(uid, e) ==
  \/ e.paid_by = uid
  \/ IsMember(uid, e.group_id)

\* "Users can view expense participants for accessible expenses"
CanViewParticipant(uid, r) ==
  \/ \E e \in expenses :
        /\ e.id = r.expense_id
        /\ (e.paid_by = uid \/ IsMember(uid, e.group_id))
  \/ r.user_id = uid

\* "Users can create expenses"
CanCreateExpense(uid, e) == uid = e.paid_by

\* "Expense creators can manage participants"
CanManageParticipant(uid, r) ==
  \E e \in expenses : e.id = r.expense_id /\ e.paid_by = uid

\* "Users can create settlements"
CanCreateSettlement(uid, s) == uid = s.from_user

\* "Users can view their friendships"
CanViewFriendship(uid, f) == uid = f.user_id \/ uid = f.friend_id

\* "Users can create friendships"
CanCreateFriendship(uid, f) == uid = f.user_id

\* "Users can create groups"
CanCreateGroup(uid, g) == uid = g.created_by

\* "Group creators can add members"
CanAddMember(uid, gm) ==
  \E g \in groups : g.id = gm.group_id /\ g.created_by = uid

\* "Users can create activities"
CanCreateActivity(uid, a) == uid = a.user_id

\* the tables whose SELECT policies the later sections of the migration and
\* fix_database_policies.sql recreate
PolicyTables == {"group_members", "groups", "expenses", "expense_participants"}

\* for each of them, the tables that the USING clauses of its policies
\* applying to SELECT read, in the policy set the migration leaves in place
\* (expense_participants keeps its FOR ALL policy, which reads expenses)
MigrationPolicyReads ==
  [t \in PolicyTables |->
     CASE t = "group_members" -> {"group_members"}
       [] t = "groups" -> {"group_members"}
       [] t = "expenses" -> {"group_members", "expense_participants"}
       [] t = "expense_participants" -> {"expenses", "group_members"}]

\* the same for the policy set fix_database_policies.sql leaves in place
FixPolicyReads ==
  [t \in PolicyTables |->
     CASE t = "group_members" -> {"group_members"}
       [] t = "groups" -> {"group_members"}
       [] t = "expenses" -> {"group_members"}
       [] t = "expense_participants" -> {"expenses", "group_members"}]

\* ----------------------------------------------------- component state
NoPendingExpense ==
  [amount |-> 0, description |-> FALSE, participants |-> {},
   group_id |-> NoGroup, expense_id |-> Null]
\* notice is the "Error" toast of a catch block, when the step that led to
\* the state raised it; the toast of a refused form, which comes with no
\* request and no change of the form, is not recorded
AeInit ==
  [selectedGroup |-> NoGroup, groupMembers |-> {}, selectedParticipants |-> {},
   fetching |-> {}, loading |-> FALSE, pc |-> "idle",
   pending |-> NoPendingExpense, notice |-> "none"]

ZeroBalances == [total_owed |-> 0, total_owing |-> 0, net_balance |-> 0]
\* failed records that a query of the running fetch returned an error
DashLoading ==
  [pc |-> "owed", owed |-> 0, failed |-> FALSE, balances |-> ZeroBalances]
DashNone == [DashLoading EXCEPT !.pc = "off"]

NoDebts == [c \in {} |-> 0]
NoDebt == [user_id |-> Null, amount |-> FZero]
NoPendingSettle ==
  [to_user |-> Null, amount |-> 0, description |-> FALSE, full |-> FALSE]
SuLoading ==
  [pc |-> "debts", debtMap |-> NoDebts, debts |-> NoDebts, loading |-> TRUE,
   showSettleForm |-> FALSE, selectedDebt |-> NoDebt, settling |-> FALSE,
   pending |-> NoPendingSettle, settledWith |-> Null]
SuNone == [SuLoading EXCEPT !.pc = "off", !.loading = FALSE]

NoPendingFriend == [email |-> Empty, friend_id |-> Null]
\* the Friends page at mount, its effect's fetchFriends in flight.
\* newFriendEmail is the text of the email input when the form was last
\* submitted; fetching counts the fetchFriends calls in flight; notice is
\* the toast of the step that led to the state (the toast of a refused
\* form is not recorded)
FrInit ==
  [showAddFriend |-> FALSE, addingFriend |-> FALSE, pc |-> "idle",
   pending |-> NoPendingFriend, newFriendEmail |-> Empty, friends |-> {},
   loading |-> TRUE, fetching |-> 1, notice |-> "none"]
FrNone == [FrInit EXCEPT !.loading = FALSE, !.fetching = 0]

GrInit == [isCreateDialogOpen |-> FALSE, pc |-> "idle", group_id |-> Null]

\* ------------------------------------------------------------- AddExpense
\* fetchUserGroups: the groups offered by the group selector
UserGroupIds(uid) ==
  LET memberData == {gm \in group_members :
                        gm.user_id = uid /\ CanViewGroupMember(uid, gm)}
      groupIds == {gm.group_id : gm \in memberData}
  IN  {g.id : g \in {x \in groups : x.id \in groupIds /\ CanViewGroup(uid, x)}}

\* expense inserts that are submitted but not yet answered by the store
ExpensesInFlight == Cardinality({b \in Browsers : ae[b].pc = "expense"})

\* handleGroupChange and the effect on selectedGroup, which starts
\* fetchGroupMembers for the new value
handleGroupChange(b, g) ==
  /\ page[b] = "addExpense"
  /\ g \in UserGroupIds(user[b])
  /\ g # ae[b].selectedGroup
  /\ ae' = [ae EXCEPT ![b].selectedGroup = g,
                      ![b].fetching = @ \cup {g},
                      ![b].notice = "none"]
  /\ UNCHANGED <<store, user, page, dash, su, fr, gr>>

\* the group_members rows fetchGroupMembers reads for a group
MemberData(uid, g) ==
  {gm \in group_members : gm.group_id = g /\ CanViewGroupMember(uid, gm)}

\* the profile ids fetchGroupMembers gets: the profiles whose id is among
\* the user_id values of the rows read
MemberProfileIds(uid, g) ==
  LET userIds == {gm.user_id : gm \in MemberData(uid, g)}
  IN  {profileId[w] : w \in {x \in Users : profileId[x] \in userIds}}

\* fetchGroupMembers(g) completes; ok = FALSE is a store error on either read
fetchGroupMembers(b, g, ok) ==
  /\ page[b] = "addExpense"
  /\ g \in ae[b].fetching
  /\ LET members == MemberProfileIds(user[b], g)
         none == MemberData(user[b], g) = {}
     IN  ae' = [ae EXCEPT
            ![b].fetching = @ \ {g},
            ![b].groupMembers =
                 IF ~ok THEN @ ELSE IF none THEN {} ELSE members,
            ![b].selectedParticipants =
                 IF ~ok \/ none THEN @ ELSE members,
            ![b].notice = IF ok THEN "none" ELSE "Error"]
  /\ UNCHANGED <<store, user, page, dash, su, fr, gr>>

\* toggleParticipant: the checkboxes are rendered for groupMembers only
toggleParticipant(b, p) ==
  /\ page[b] = "addExpense"
  /\ ae[b].selectedGroup # NoGroup
  /\ p \in ae[b].groupMembers
  /\ ae' = [ae EXCEPT ![b].selectedParticipants =
                 IF p \in @ THEN @ \ {p} ELSE @ \cup {p},
                      ![b].notice = "none"]
  /\ UNCHANGED <<store, user, page, dash, su, fr, gr>>

\* handleSubmit up to its first request: validation, setLoading(true).
\* The submit button is disabled while loading.
handleSubmit(b, amount, hasDescription) ==
  /\ page[b] = "addExpense"
  /\ ~ae[b].loading
  /\ IF \/ ae[b].selectedGroup = NoGroup
        \/ ae[b].selectedParticipants = {}
        \/ ~hasDescription
        \/ amount = Empty
     THEN ae' = ae
     ELSE /\ Cardinality(expenses) + ExpensesInFlight < MaxExpenses
          /\ ae' = [ae EXCEPT
                ![b].loading = TRUE,
                ![b].pc = "expense",
                ![b].notice = "none",
                ![b].pending = [amount |-> amount,
                                description |-> hasDescription,
                                participants |-> ae[b].selectedParticipants,
                                group_id |-> ae[b].selectedGroup,
                                expense_id |-> Null]]
  /\ UNCHANGED <<store, user, page, dash, su, fr, gr>>

\* the store answers the insert into expenses (CHECK amount > 0)
handleSubmitExpense(b, ok) ==
  /\ page[b] = "addExpense"
  /\ ae[b].pc = "expense"
  /\ LET row == [id |-> Cardinality(expenses) + 1,
                 amount |-> ae[b].pending.amount,
                 paid_by |-> user[b],
                 group_id |-> ae[b].pending.group_id]
     IN  IF ok /\ row.amount > 0 /\ CanCreateExpense(user[b], row)
         THEN /\ expenses' = expenses \cup {row}
              /\ ae' = [ae EXCEPT ![b].pc = "participants",
                                  ![b].pending.expense_id = row.id,
                                  ![b].notice = "none"]
         ELSE /\ expenses' = expenses
              /\ ae' = [ae EXCEPT ![b].pc = "idle", ![b].loading = FALSE,
                                  ![b].pending = NoPendingExpense,
                                  ![b].notice = "Error"]
  /\ UNCHANGED <<profileId, groups, group_members, friendships,
                 expense_participants, settlements, activities,
                 user, page, dash, su, fr, gr>>

\* the rows handleSubmit builds for expense_participants, as stored
ParticipantRowsTruncated(pending) ==
  {[expense_id |-> pending.expense_id, user_id |-> p,
    amount_owed |-> Decimal2Truncate(pending.amount,
                                     Cardinality(pending.participants)),
    is_settled |-> FALSE] : p \in pending.participants}
ParticipantRows(pending) ==
  {[expense_id |-> pending.expense_id, user_id |-> p,
    amount_owed |-> Decimal2(pending.amount,
                             Cardinality(pending.participants)),
    is_settled |-> FALSE] : p \in pending.participants}

\* a variant that takes the expense back when its participant rows are
\* rejected
handleSubmitParticipantsRollback(b, ok) ==
  /\ page[b] = "addExpense"
  /\ ae[b].pc = "participants"
  /\ LET rows == ParticipantRows(ae[b].pending)
     IN  IF /\ ok
            /\ \A r \in rows :
                  CanManageParticipant(user[b], r) /\ r.user_id \in Users
         THEN /\ expense_participants' = expense_participants \cup rows
              /\ expenses' = expenses
              /\ ae' = [ae EXCEPT ![b] = AeInit]
              /\ page' = [page EXCEPT ![b] = "dashboard"]
              /\ dash' = [dash EXCEPT ![b] = DashLoading]
         ELSE /\ expense_participants' = expense_participants
              /\ expenses' = {e \in expenses : e.id # ae[b].pending.expense_id}
              /\ ae' = [ae EXCEPT ![b].pc = "idle", ![b].loading = FALSE,
                                  ![b].pending = NoPendingExpense,
                                  ![b].notice = "Error"]
              /\ UNCHANGED <<page, dash>>
  /\ UNCHANGED <<profileId, groups, group_members, friendships,
                 settlements, activities, user, su, fr, gr>>

\* the store answers the insert into expense_participants (policy, foreign
\* key on user_id); on success the page navigates to the dashboard, which
\* mounts and starts loading
handleSubmitParticipants(b, ok) ==
  /\ page[b] = "addExpense"
  /\ ae[b].pc = "participants"
  /\ LET rows == ParticipantRows(ae[b].pending)
     IN  IF /\ ok
            /\ \A r \in rows :
                  CanManageParticipant(user[b], r) /\ r.user_id \in Users
         THEN /\ expense_participants' = expense_participants \cup rows
              /\ ae' = [ae EXCEPT ![b] = AeInit]
              /\ page' = [page EXCEPT ![b] = "dashboard"]
              /\ dash' = [dash EXCEPT ![b] = DashLoading]
         ELSE /\ expense_participants' = expense_participants
              /\ ae' = [ae EXCEPT ![b].pc = "idle", ![b].loading = FALSE,
                                  ![b].pending = NoPendingExpense,
                                  ![b].notice = "Error"]
              /\ UNCHANGED <<page, dash>>
  /\ UNCHANGED <<profileId, groups, group_members, friendships, expenses,
                 settlements, activities, user, su, fr, gr>>

\* -------------------------------------------------------------- Dashboard
\* the rows of the first balance query: user_id = uid, is_settled = false
OwedDataOfOthers(uid) ==
  {r \in expense_participants :
      /\ r.user_id # uid /\ ~r.is_settled /\ CanViewParticipant(uid, r)
      /\ \E e \in expenses : e.id = r.expense_id /\ e.paid_by = uid}
OwedData(uid) ==
  {r \in expense_participants :
      r.user_id = uid /\ ~r.is_settled /\ CanViewParticipant(uid, r)}

\* the rows of the second balance query: inner join on expenses with
\* paid_by <> uid
OwingData(uid) ==
  {r \in expense_participants :
      /\ r.user_id = uid /\ ~r.is_settled /\ CanViewParticipant(uid, r)
      /\ \E e \in expenses :
            e.id = r.expense_id /\ CanViewExpense(uid, e) /\ e.paid_by # uid}

\* net_balance: totalOwed - totalOwing
NetBalanceReversed(totalOwed, totalOwing) == totalOwing - totalOwed
NetBalance(totalOwed, totalOwing) == totalOwed - totalOwing

\* the balances fetchDashboardData computes for uid from the store
Balances(uid) ==
  LET totalOwed == SumOwed(OwedData(uid))
      totalOwing == SumOwed(OwingData(uid))
  IN  [total_owed |-> totalOwed, total_owing |-> totalOwing,
       net_balance |-> NetBalance(totalOwed, totalOwing)]

\* fetchDashboardData, first query; a failed query yields data = null,
\* which the reduce turns into 0
fetchDashboardDataOwed(b, ok) ==
  /\ page[b] = "dashboard"
  /\ dash[b].pc = "owed"
  /\ dash' = [dash EXCEPT
        ![b].pc = "owing",
        ![b].owed = IF ok THEN SumOwed(OwedData(user[b])) ELSE 0,
        ![b].failed = ~ok]
  /\ UNCHANGED <<store, user, page, ae, su, fr, gr>>

\* fetchDashboardData, second query and setBalances; the queries that
\* follow (recent expenses, group count) do not touch balances
fetchDashboardDataOwing(b, ok) ==
  /\ page[b] = "dashboard"
  /\ dash[b].pc = "owing"
  /\ LET totalOwed == dash[b].owed
         totalOwing == IF ok THEN SumOwed(OwingData(user[b])) ELSE 0
     IN  dash' = [dash EXCEPT
            ![b].pc = "done",
            ![b].owed = 0,
            ![b].failed = @ \/ ~ok,
            ![b].balances = [total_owed |-> totalOwed,
                             total_owing |-> totalOwing,
                             net_balance |-> NetBalance(totalOwed, totalOwing)]]
  /\ UNCHANGED <<store, user, page, ae, su, fr, gr>>

\* --------------------------------------------------------------- SettleUp
\* what the user can type into the amount field of the settle form; the
\* field is prefilled with Math.abs(debt.amount)
Prefilled == -2
SettleAmountInputs == {Prefilled, Empty, 0, 100}

\* the payer of the expense a participant row belongs to
PaidBy(r) == (CHOOSE e \in expenses : e.id = r.expense_id).paid_by

\* a profile with this id exists (profiles are readable by everyone)
HasProfile(id) == \E w \in Users : profileId[w] = id

\* first pass of fetchDebtsAndSettlements: the caller's unsettled rows
\* (debtData) on expenses paid by someone else (expenseData) whose payer
\* has a profile (payerData), summed per payer
DebtRows(uid) ==
  {r \in expense_participants :
      /\ r.user_id = uid /\ ~r.is_settled /\ CanViewParticipant(uid, r)
      /\ \E e \in expenses :
            /\ e.id = r.expense_id /\ CanViewExpense(uid, e)
            /\ e.paid_by # uid /\ HasProfile(e.paid_by)}

\* the values start + t1 + t2 + ... can take, t being Number(amount_owed)
\* of the rows (negated in the second pass), added in double precision one
\* by one in the order the rows arrive, which no ORDER BY fixes
RECURSIVE FSums(_, _, _)
FSums(start, rows, negate) ==
  IF rows = {} THEN {start}
  ELSE UNION {FSums(FAdd(start, IF negate THEN FNeg(Number(a)) ELSE Number(a)),
                    rows \ {CHOOSE r \in rows : r.amount_owed = a}, negate) :
                a \in {r.amount_owed : r \in rows}}

\* the maps the first pass can build
DebtPass(uid) ==
  LET rows == DebtRows(uid)
      keys == {PaidBy(r) : r \in rows}
      sums == [c \in keys |->
                 FSums(FZero, {r \in rows : PaidBy(r) = c}, FALSE)]
  IN  {m \in [keys -> UNION {sums[c] : c \in keys}] :
          \A c \in keys : m[c] \in sums[c]}

\* second pass: all unsettled rows the caller can read (owedData) on
\* expenses paid by the caller (userExpenseData) whose participant has a
\* profile (participantData), subtracted per participant
OwedRows(uid) ==
  {r \in expense_participants :
      /\ ~r.is_settled /\ CanViewParticipant(uid, r)
      /\ HasProfile(r.user_id)
      /\ \E e \in expenses :
            e.id = r.expense_id /\ CanViewExpense(uid, e) /\ e.paid_by = uid}

\* the maps the second pass can make of debtMap
OwedPass(uid, debtMap) ==
  LET rows == OwedRows(uid)
      keys == DOMAIN debtMap \cup {r.user_id : r \in rows}
      sums == [c \in keys |->
                 FSums(IF c \in DOMAIN debtMap THEN debtMap[c] ELSE FZero,
                       {r \in rows : r.user_id = c}, TRUE)]
  IN  {m \in [keys -> UNION {sums[c] : c \in keys}] :
          \A c \in keys : m[c] \in sums[c]}

\* Array.from(debtMap.values()).filter(debt => debt.amount !== 0)
DebtsList(debtMap) ==
  [c \in {x \in DOMAIN debtMap : ~FIsZero(debtMap[x])} |-> debtMap[c]]

\* fetchDebtsAndSettlements, queries of the first pass; an error ends the
\* fetch in the catch block and leaves the list as it was
fetchDebts(b, ok) ==
  /\ page[b] = "settleUp"
  /\ su[b].pc = "debts"
  /\ \E m \in (IF ok THEN DebtPass(user[b]) ELSE {NoDebts}) :
     su' = [su EXCEPT
        ![b].pc = IF ok THEN "owed" ELSE "ready",
        ![b].debtMap = m,
        ![b].loading = IF ok THEN @ ELSE FALSE,
        ![b].settledWith = IF ok THEN @ ELSE Null]
  /\ UNCHANGED <<store, user, page, ae, dash, fr, gr>>

\* fetchDebtsAndSettlements, queries of the second pass, setDebts and the
\* read of the recent settlements
fetchOwed(b, ok) ==
  /\ page[b] = "settleUp"
  /\ su[b].pc = "owed"
  /\ \E m \in (IF ok THEN OwedPass(user[b], su[b].debtMap) ELSE {NoDebts}) :
     su' = [su EXCEPT
        ![b].pc = "ready",
        ![b].debtMap = NoDebts,
        ![b].debts = IF ok THEN DebtsList(m) ELSE @,
        ![b].loading = FALSE,
        ![b].settledWith = IF ok THEN @ ELSE Null]
  /\ UNCHANGED <<store, user, page, ae, dash, fr, gr>>

\* the Settle Up button of an entry, rendered for debt.amount < 0
OpenSettleForm(b, c) ==
  /\ page[b] = "settleUp"
  /\ ~su[b].loading
  /\ c \in DOMAIN su[b].debts
  /\ FNegative(su[b].debts[c])
  /\ su' = [su EXCEPT
        ![b].selectedDebt = [user_id |-> c, amount |-> su[b].debts[c]],
        ![b].showSettleForm = TRUE,
        ![b].settledWith = Null]
  /\ UNCHANGED <<store, user, page, ae, dash, fr, gr>>

\* the Cancel button of the settle form
CancelSettleForm(b) ==
  /\ page[b] = "settleUp"
  /\ su[b].showSettleForm
  /\ su' = [su EXCEPT ![b].selectedDebt = NoDebt, ![b].showSettleForm = FALSE]
  /\ UNCHANGED <<store, user, page, ae, dash, fr, gr>>

SettlementsInFlight == Cardinality({b \in Browsers : su[b].settling})

\* handleSettle up to its request: validation, setSettling(true)
handleSettle(b, input, hasDescription) ==
  /\ page[b] = "settleUp"
  /\ su[b].showSettleForm
  /\ su[b].selectedDebt # NoDebt
  /\ ~su[b].settling
  /\ LET \* the cents of the amount, which the store rounds to DECIMAL(10,2)
         amount == IF input = Prefilled
                   THEN Abs(su[b].selectedDebt.amount.cents) ELSE input
         \* parseFloat(settleAmount) > 0; the prefilled text is that of
         \* Math.abs(debt.amount)
         positive == IF input = Prefilled
                     THEN ~FIsZero(su[b].selectedDebt.amount) ELSE input > 0
     IN  IF input = Empty \/ ~hasDescription \/ ~positive
         THEN su' = su
         ELSE /\ Cardinality(settlements) + SettlementsInFlight < MaxSettlements
              /\ su' = [su EXCEPT
                    ![b].settling = TRUE,
                    ![b].pending =
                        [to_user |-> su[b].selectedDebt.user_id,
                         amount |-> amount,
                         description |-> hasDescription,
                         full |-> amount = Abs(su[b].selectedDebt.amount.cents)]]
  /\ UNCHANGED <<store, user, page, ae, dash, fr, gr>>

\* the row handleSettle inserts into settlements
SettlementRowToSelf(b) ==
  [id |-> Cardinality(settlements) + 1,
   from_user |-> user[b],
   to_user |-> user[b],
   amount |-> su[b].pending.amount]
SettlementRow(b) ==
  [id |-> Cardinality(settlements) + 1,
   from_user |-> user[b],
   to_user |-> su[b].pending.to_user,
   amount |-> su[b].pending.amount]

\* the store answers the insert into settlements (CHECK amount > 0, policy,
\* foreign key on to_user); on success the form is reset and the list is
\* fetched again
handleSettleClearing(b, ok) ==
  /\ page[b] = "settleUp"
  /\ su[b].settling
  /\ LET row == SettlementRow(b)
     IN  IF /\ ok /\ row.amount > 0
            /\ CanCreateSettlement(user[b], row) /\ row.to_user \in Users
         THEN /\ settlements' = settlements \cup {row}
              /\ expense_participants' =
                   {IF r.user_id = row.to_user /\ PaidBy(r) = user[b]
                    THEN [r EXCEPT !.is_settled = TRUE] ELSE r :
                      r \in expense_participants}
              /\ su' = [su EXCEPT
                    ![b].selectedDebt = NoDebt, ![b].showSettleForm = FALSE,
                    ![b].settling = FALSE, ![b].pending = NoPendingSettle,
                    ![b].pc = "debts",
                    ![b].settledWith = IF su[b].pending.full
                                       THEN row.to_user ELSE Null]
         ELSE /\ UNCHANGED <<settlements, expense_participants>>
              /\ su' = [su EXCEPT ![b].settling = FALSE, ![b].pending = NoPendingSettle]
  /\ UNCHANGED <<profileId, groups, group_members, friendships, expenses,
                 activities, user, page, ae, dash, fr, gr>>
handleSettleInsert(b, ok) ==
  /\ page[b] = "settleUp"
  /\ su[b].settling
  /\ LET row == SettlementRow(b)
     IN  IF /\ ok /\ row.amount > 0
            /\ CanCreateSettlement(user[b], row) /\ row.to_user \in Users
         THEN /\ settlements' = settlements \cup {row}
              /\ su' = [su EXCEPT
                    ![b].selectedDebt = NoDebt, ![b].showSettleForm = FALSE,
                    ![b].settling = FALSE, ![b].pending = NoPendingSettle,
                    ![b].pc = "debts",
                    ![b].settledWith = IF su[b].pending.full
                                       THEN row.to_user ELSE Null]
         ELSE /\ settlements' = settlements
              /\ su' = [su EXCEPT ![b].settling = FALSE, ![b].pending = NoPendingSettle]
  /\ UNCHANGED <<profileId, groups, group_members, friendships, expenses,
                 expense_participants, activities, user, page, ae, dash,
                 fr, gr>>

\* ---------------------------------------------------------------- Friends
\* an email that no profile has
NoSuchEmail == 99
\* what the user can type into the email field; the email of user w is w
EmailInputs == Users \cup {Empty, NoSuchEmail}

\* a toast is the outcome of one step: notice holds the toast raised by the
\* step that led to the state, and Quiet takes down the earlier ones
Quiet(f) == [b \in DOMAIN f |-> [f[b] EXCEPT !.notice = "none"]]

\* the accepted friendships rows in which uid is on either side, as the
\* caller may see them
AcceptedFriendships(uid) ==
  {f \in friendships :
      /\ CanViewFriendship(uid, f)
      /\ f.user_id = uid \/ f.friend_id = uid
      /\ f.status = "accepted"}

\* fetchFriends listing only the rows the user requested
FriendsListRequested(uid) ==
  {[row |-> f, id |-> f.friend_id, known |-> HasProfile(f.friend_id)] :
     f \in {a \in AcceptedFriendships(uid) : a.user_id = uid}}

\* friendsList: one entry per row read, naming the other side of the row;
\* known tells whether a profile with that id was found (the name and the
\* email are 'Unknown' otherwise).  The row is kept in the entry, as the
\* position in the array is in the code.
FriendsList(uid) ==
  {[row |-> f,
    id |-> IF f.user_id = uid THEN f.friend_id ELSE f.user_id,
    known |-> HasProfile(IF f.user_id = uid THEN f.friend_id ELSE f.user_id)] :
     f \in AcceptedFriendships(uid)}

\* a fetchFriends call completes; ok = FALSE is a store error on either
\* read, which leaves the list as it was
fetchFriends(b, ok) ==
  /\ page[b] = "friends"
  /\ fr[b].fetching > 0
  /\ fr' = [Quiet(fr) EXCEPT
        ![b].fetching = @ - 1,
        ![b].loading = FALSE,
        ![b].friends = IF ok THEN FriendsList(user[b]) ELSE @,
        ![b].notice = IF ok THEN "none" ELSE "Error"]
  /\ UNCHANGED <<store, user, page, ae, dash, su, gr>>

\* the Add Friend button and the Cancel button of the form
OpenAddFriend(b) ==
  /\ page[b] = "friends"
  /\ ~fr[b].loading
  /\ ~fr[b].showAddFriend
  /\ fr' = [Quiet(fr) EXCEPT ![b].showAddFriend = TRUE, ![b].notice = "none"]
  /\ UNCHANGED <<store, user, page, ae, dash, su, gr>>

CancelAddFriend(b) ==
  /\ page[b] = "friends"
  /\ fr[b].showAddFriend
  /\ fr' = [Quiet(fr) EXCEPT ![b].showAddFriend = FALSE,
                      ![b].newFriendEmail = Empty, ![b].notice = "none"]
  /\ UNCHANGED <<store, user, page, ae, dash, su, gr>>

\* addFriend up to its first request: validation, setAddingFriend(true).
\* The submit button is disabled while addingFriend.
addFriend(b, email) ==
  /\ page[b] = "friends"
  /\ fr[b].showAddFriend
  /\ ~fr[b].addingFriend
  /\ IF email = Empty
     THEN fr' = [Quiet(fr) EXCEPT ![b].newFriendEmail = Empty, ![b].notice = "none"]
     ELSE fr' = [Quiet(fr) EXCEPT ![b].addingFriend = TRUE, ![b].pc = "lookup",
                           ![b].pending = [email |-> email, friend_id |-> Null],
                           ![b].newFriendEmail = email, ![b].notice = "none"]
  /\ UNCHANGED <<store, user, page, ae, dash, su, gr>>

\* addFriendLookup closing the form when no profile matches
addFriendLookupClosing(b, ok) ==
  /\ page[b] = "friends"
  /\ fr[b].pc = "lookup"
  /\ LET found == ok /\ fr[b].pending.email \in Users
         id == IF found THEN profileId[fr[b].pending.email] ELSE Null
     IN  IF ~found \/ id = user[b]
         THEN fr' = [Quiet(fr) EXCEPT ![b].addingFriend = FALSE, ![b].pc = "idle",
                               ![b].pending = NoPendingFriend,
                               ![b].showAddFriend = FALSE,
                               ![b].newFriendEmail = Empty,
                               ![b].notice = IF ~found THEN "User Not Found"
                                             ELSE "Invalid Action"]
         ELSE fr' = [Quiet(fr) EXCEPT ![b].pc = "check", ![b].pending.friend_id = id]
  /\ UNCHANGED <<store, user, page, ae, dash, su, gr>>

\* the answer to the profile lookup by email (.single()), then the
\* comparison of the profile id with the user's id
addFriendLookup(b, ok) ==
  /\ page[b] = "friends"
  /\ fr[b].pc = "lookup"
  /\ LET found == ok /\ fr[b].pending.email \in Users
         id == IF found THEN profileId[fr[b].pending.email] ELSE Null
     IN  IF ~found \/ id = user[b]
         THEN fr' = [Quiet(fr) EXCEPT ![b].addingFriend = FALSE, ![b].pc = "idle",
                               ![b].pending = NoPendingFriend,
                               ![b].notice = IF ~found THEN "User Not Found"
                                             ELSE "Invalid Action"]
         ELSE fr' = [Quiet(fr) EXCEPT ![b].pc = "check", ![b].pending.friend_id = id]
  /\ UNCHANGED <<store, user, page, ae, dash, su, gr>>

\* the friendships rows between the two ids, in either direction, that the
\* caller may see
ExistingFriendships(uid, id) ==
  {f \in friendships :
      /\ CanViewFriendship(uid, f)
      /\ \/ f.user_id = uid /\ f.friend_id = id
         \/ f.user_id = id /\ f.friend_id = uid}

\* addFriendCheck leaving addingFriend set when a row exists
addFriendCheckStuck(b, ok) ==
  /\ page[b] = "friends"
  /\ fr[b].pc = "check"
  /\ LET existingFriendship ==
           ok /\ Cardinality(ExistingFriendships(user[b],
                                                 fr[b].pending.friend_id)) = 1
     IN  IF existingFriendship
         THEN fr' = [Quiet(fr) EXCEPT ![b].pc = "idle",
                               ![b].pending = NoPendingFriend,
                               ![b].notice = "Already Friends"]
         ELSE fr' = [Quiet(fr) EXCEPT ![b].pc = "insert"]
  /\ UNCHANGED <<store, user, page, ae, dash, su, gr>>

\* the answer to the existing-friendship query; .single() yields data only
\* when exactly one row matches, and its error is not inspected
addFriendCheck(b, ok) ==
  /\ page[b] = "friends"
  /\ fr[b].pc = "check"
  /\ LET existingFriendship ==
           ok /\ Cardinality(ExistingFriendships(user[b],
                                                 fr[b].pending.friend_id)) = 1
     IN  IF existingFriendship
         THEN fr' = [Quiet(fr) EXCEPT ![b].addingFriend = FALSE, ![b].pc = "idle",
                               ![b].pending = NoPendingFriend,
                               ![b].notice = "Already Friends"]
         ELSE fr' = [Quiet(fr) EXCEPT ![b].pc = "insert"]
  /\ UNCHANGED <<store, user, page, ae, dash, su, gr>>

\* addFriendInsert writing the row with status 'accepted'
addFriendInsertAccepted(b, ok) ==
  /\ page[b] = "friends"
  /\ fr[b].pc = "insert"
  /\ LET row == [user_id |-> user[b], friend_id |-> fr[b].pending.friend_id,
                 status |-> "accepted"]
     IN  IF /\ ok
            /\ CanCreateFriendship(user[b], row)
            /\ row.friend_id \in Users
            /\ ~\E f \in friendships :
                   f.user_id = row.user_id /\ f.friend_id = row.friend_id
         THEN /\ friendships' = friendships \cup {row}
              /\ fr' = [Quiet(fr) EXCEPT ![b].addingFriend = FALSE, ![b].pc = "idle",
                                  ![b].pending = NoPendingFriend,
                                  ![b].newFriendEmail = Empty,
                                  ![b].showAddFriend = FALSE,
                                  ![b].fetching = @ + 1,
                                  ![b].notice = "Friend Request Sent"]
         ELSE /\ friendships' = friendships
              /\ fr' = [Quiet(fr) EXCEPT ![b].addingFriend = FALSE, ![b].pc = "idle",
                                  ![b].pending = NoPendingFriend,
                                  ![b].notice = "Error"]
  /\ UNCHANGED <<profileId, groups, group_members, expenses,
                 expense_participants, settlements, activities,
                 user, page, ae, dash, su, gr>>

\* the store answers the insert into friendships (policy, UNIQUE(user_id,
\* friend_id), foreign key on friend_id); on success the form is closed
addFriendInsert(b, ok) ==
  /\ page[b] = "friends"
  /\ fr[b].pc = "insert"
  /\ LET row == [user_id |-> user[b], friend_id |-> fr[b].pending.friend_id,
                 status |-> "pending"]
     IN  IF /\ ok
            /\ CanCreateFriendship(user[b], row)
            /\ row.friend_id \in Users
            /\ ~\E f \in friendships :
                   f.user_id = row.user_id /\ f.friend_id = row.friend_id
         THEN /\ friendships' = friendships \cup {row}
              /\ fr' = [Quiet(fr) EXCEPT ![b].addingFriend = FALSE, ![b].pc = "idle",
                                  ![b].pending = NoPendingFriend,
                                  ![b].newFriendEmail = Empty,
                                  ![b].showAddFriend = FALSE,
                                  ![b].fetching = @ + 1,
                                  ![b].notice = "Friend Request Sent"]
         ELSE /\ friendships' = friendships
              /\ fr' = [Quiet(fr) EXCEPT ![b].addingFriend = FALSE, ![b].pc = "idle",
                                  ![b].pending = NoPendingFriend,
                                  ![b].notice = "Error"]
  /\ UNCHANGED <<profileId, groups, group_members, expenses,
                 expense_participants, settlements, activities,
                 user, page, ae, dash, su, gr>>

\* ----------------------------------------------------------------- Groups
OpenCreateDialog(b) ==
  /\ page[b] = "groups"
  /\ ~gr[b].isCreateDialogOpen
  /\ gr' = [gr EXCEPT ![b].isCreateDialogOpen = TRUE]
  /\ UNCHANGED <<store, user, page, ae, dash, su, fr>>

CloseCreateDialog(b) ==
  /\ page[b] = "groups"
  /\ gr[b].isCreateDialogOpen
  /\ gr' = [gr EXCEPT ![b].isCreateDialogOpen = FALSE]
  /\ UNCHANGED <<store, user, page, ae, dash, su, fr>>

GroupsInFlight == Cardinality({b \in Browsers : gr[b].pc = "group"})

\* handleCreateGroup up to its first request: the name is required.  One
\* creation per browser is followed at a time.
handleCreateGroup(b, hasName) ==
  /\ page[b] = "groups"
  /\ gr[b].isCreateDialogOpen
  /\ gr[b].pc = "idle"
  /\ IF ~hasName
     THEN gr' = gr
     ELSE /\ Cardinality(groups) + GroupsInFlight < MaxGroups
          /\ gr' = [gr EXCEPT ![b].pc = "group"]
  /\ UNCHANGED <<store, user, page, ae, dash, su, fr>>

\* the store answers the insert into groups
handleCreateGroupInsert(b, ok) ==
  /\ page[b] = "groups"
  /\ gr[b].pc = "group"
  /\ LET row == [id |-> Cardinality(groups) + 1, created_by |-> user[b]]
     IN  IF ok /\ CanCreateGroup(user[b], row)
         THEN /\ groups' = groups \cup {row}
              /\ gr' = [gr EXCEPT ![b].pc = "member", ![b].group_id = row.id]
         ELSE /\ groups' = groups
              /\ gr' = [gr EXCEPT ![b].pc = "idle"]
  /\ UNCHANGED <<profileId, group_members, friendships, expenses,
                 expense_participants, settlements, activities,
                 user, page, ae, dash, su, fr>>

\* the store answers the insert of the creator into group_members
handleCreateGroupMember(b, ok) ==
  /\ page[b] = "groups"
  /\ gr[b].pc = "member"
  /\ LET row == [group_id |-> gr[b].group_id, user_id |-> user[b]]
     IN  IF ok /\ CanAddMember(user[b], row) /\ row \notin group_members
         THEN /\ group_members' = group_members \cup {row}
              /\ gr' = [gr EXCEPT ![b].pc = "activity"]
         ELSE /\ group_members' = group_members
              /\ gr' = [gr EXCEPT ![b].pc = "idle", ![b].group_id = Null]
  /\ UNCHANGED <<profileId, groups, friendships, expenses,
                 expense_participants, settlements, activities,
                 user, page, ae, dash, su, fr>>

\* the store answers the insert into activities, whose result is not
\* inspected; the dialog is closed and the list is fetched again
handleCreateGroupActivity(b, ok) ==
  /\ page[b] = "groups"
  /\ gr[b].pc = "activity"
  /\ LET row == [id |-> Cardinality(activities) + 1, user_id |-> user[b],
                 activity_type |-> "group_created",
                 group_id |-> gr[b].group_id]
     IN  activities' = IF ok /\ CanCreateActivity(user[b], row)
                       THEN activities \cup {row} ELSE activities
  /\ gr' = [gr EXCEPT ![b] = GrInit]
  /\ UNCHANGED <<profileId, groups, group_members, friendships, expenses,
                 expense_participants, settlements, user, page, ae, dash,
                 su, fr>>

\* ------------------------------------------------------------- navigation
\* no submission of this browser is waiting for the store
Idle(b) == ae[b].pc = "idle" /\ ~su[b].settling /\ ~fr[b].addingFriend

Mounted(p, comp, initial, none) == IF p = comp THEN initial ELSE none

\* the user opens another page (sidebar, Back, links) while no submission
\* is in flight; the page left is unmounted, the page opened mounts with
\* its initial state and starts its fetch
Open(b, p) ==
  /\ page[b] \in {"dashboard", "addExpense", "settleUp", "friends"}
  /\ page[b] # p
  /\ Idle(b)
  /\ page' = [page EXCEPT ![b] = p]
  /\ ae' = [ae EXCEPT ![b] = AeInit]
  /\ dash' = [dash EXCEPT ![b] = Mounted(p, "dashboard", DashLoading, DashNone)]
  /\ su' = [su EXCEPT ![b] = Mounted(p, "settleUp", SuLoading, SuNone)]
  /\ fr' = [fr EXCEPT ![b] = Mounted(p, "friends", FrInit, FrNone)]
  /\ UNCHANGED <<store, user, gr>>

\* another user signs in on this browser; the app opens on the dashboard
SignIn(b, uid) ==
  /\ page[b] \in {"dashboard", "addExpense", "settleUp"}
  /\ uid # user[b]
  /\ Idle(b)
  /\ user' = [user EXCEPT ![b] = uid]
  /\ page' = [page EXCEPT ![b] = "dashboard"]
  /\ ae' = [ae EXCEPT ![b] = AeInit]
  /\ dash' = [dash EXCEPT ![b] = DashLoading]
  /\ su' = [su EXCEPT ![b] = SuNone]
  /\ UNCHANGED <<store, fr, gr>>

\* --------------------------------------------------------- specifications
\* a store with one group, created by user 1, and no expenses yet
InitStore(members) ==
  /\ profileId \in ProfileIdChoices
  /\ groups = {[id |-> 1, created_by |-> 1]}
  /\ group_members = {[group_id |-> 1, user_id |-> w] : w \in members}
  /\ friendships = {}
  /\ expenses = {}
  /\ expense_participants = {}
  /\ settlements = {}
  /\ activities = {}

\* one browser, user 1 signed in, on the dashboard
InitBrowser ==
  /\ user = [b \in {1} |-> 1]
  /\ page = [b \in {1} |-> "dashboard"]
  /\ ae = [b \in {1} |-> AeInit]
  /\ dash = [b \in {1} |-> DashLoading]
  /\ su = [b \in {1} |-> SuNone]
  /\ fr = [b \in {1} |-> FrNone]
  /\ gr = [b \in {1} |-> GrInit]

\* the group holds all users
Init == InitStore(Users) /\ InitBrowser

\* the group holds users 1 and 2; user 3 takes no part
InitSettle == InitStore({1, 2}) /\ profileId[3] = 3 /\ InitBrowser

AddExpenseNext ==
  \/ \E b \in Browsers, g \in {x.id : x \in groups} : handleGroupChange(b, g)
  \/ \E b \in Browsers, g \in {x.id : x \in groups}, ok \in BOOLEAN :
        fetchGroupMembers(b, g, ok)
  \/ \E b \in Browsers, p \in ProfileIds : toggleParticipant(b, p)
  \/ \E b \in Browsers, a \in AmountInputs, d \in BOOLEAN : handleSubmit(b, a, d)
  \/ \E b \in Browsers, ok \in BOOLEAN : handleSubmitExpense(b, ok)
  \/ \E b \in Browsers, ok \in BOOLEAN : handleSubmitParticipants(b, ok)

DashboardNext ==
  \/ \E b \in Browsers, ok \in BOOLEAN : fetchDashboardDataOwed(b, ok)
  \/ \E b \in Browsers, ok \in BOOLEAN : fetchDashboardDataOwing(b, ok)

SettleUpNext ==
  \/ \E b \in Browsers, ok \in BOOLEAN : fetchDebts(b, ok)
  \/ \E b \in Browsers, ok \in BOOLEAN : fetchOwed(b, ok)
  \/ \E b \in Browsers, c \in ProfileIds : OpenSettleForm(b, c)
  \/ \E b \in Browsers : CancelSettleForm(b)
  \/ \E b \in Browsers, a \in SettleAmountInputs, d \in BOOLEAN :
        handleSettle(b, a, d)
  \/ \E b \in Browsers, ok \in BOOLEAN : handleSettleInsert(b, ok)

\* Add Expense and the dashboard, any user signing in
Next ==
  \/ AddExpenseNext
  \/ DashboardNext
  \/ \E b \in Browsers, p \in {"dashboard", "addExpense"} : Open(b, p)
  \/ \E b \in Browsers, uid \in Users : SignIn(b, uid)

Spec == Init /\ [][Next]_vars

\* Add Expense and Settle Up, any user signing in
NextSettle ==
  \/ AddExpenseNext
  \/ SettleUpNext
  \/ \E b \in Browsers, p \in {"settleUp", "addExpense"} : Open(b, p)
  \/ \E b \in Browsers, uid \in {gm.user_id : gm \in group_members} :
        SignIn(b, uid)

SpecSettle == InitSettle /\ [][NextSettle]_vars

\* two browsers, each with some user signed in, both on the given page
InitBrowsers(p) ==
  /\ user \in [{1, 2} -> Users]
  /\ page = [b \in {1, 2} |-> p]
  /\ ae = [b \in {1, 2} |-> AeInit]
  /\ dash = [b \in {1, 2} |-> DashNone]
  /\ su = [b \in {1, 2} |-> SuNone]
  /\ fr = [b \in {1, 2} |-> Mounted(p, "friends", FrInit, FrNone)]
  /\ gr = [b \in {1, 2} |-> GrInit]

\* Friends: two browsers adding friends, user 1 in the first and any user
\* in the second
InitFriends ==
  /\ InitStore(Users)
  /\ InitBrowsers("friends")
  /\ user[1] = 1

NextFriends ==
  \/ \E b \in Browsers, ok \in BOOLEAN : fetchFriends(b, ok)
  \/ \E b \in Browsers : OpenAddFriend(b)
  \/ \E b \in Browsers : CancelAddFriend(b)
  \/ \E b \in Browsers, e \in EmailInputs : addFriend(b, e)
  \/ \E b \in Browsers, ok \in BOOLEAN : addFriendLookup(b, ok)
  \/ \E b \in Browsers, ok \in BOOLEAN : addFriendCheck(b, ok)
  \/ \E b \in Browsers, ok \in BOOLEAN : addFriendInsert(b, ok)

SpecFriends == InitFriends /\ [][NextFriends]_vars

\* Groups: two browsers creating groups in a store without groups
InitGroups ==
  /\ profileId \in ProfileIdChoices
  /\ groups = {}
  /\ group_members = {}
  /\ friendships = {}
  /\ expenses = {}
  /\ expense_participants = {}
  /\ settlements = {}
  /\ activities = {}
  /\ InitBrowsers("groups")

NextGroups ==
  \/ \E b \in Browsers : OpenCreateDialog(b)
  \/ \E b \in Browsers : CloseCreateDialog(b)
  \/ \E b \in Browsers, n \in BOOLEAN : handleCreateGroup(b, n)
  \/ \E b \in Browsers, ok \in BOOLEAN : handleCreateGroupInsert(b, ok)
  \/ \E b \in Browsers, ok \in BOOLEAN : handleCreateGroupMember(b, ok)
  \/ \E b \in Browsers, ok \in BOOLEAN : handleCreateGroupActivity(b, ok)

SpecGroups == InitGroups /\ [][NextGroups]_vars

\* Add Expense with two groups: users 1 and 2 in group 1, users 1 and 3 in
\* group 2, user 1 on the form
InitTwoGroups ==
  /\ profileId \in ProfileIdChoices
  /\ groups = {[id |-> 1, created_by |-> 1], [id |-> 2, created_by |-> 1]}
  /\ group_members = {[group_id |-> 1, user_id |-> 1],
                      [group_id |-> 1, user_id |-> 2],
                      [group_id |-> 2, user_id |-> 1],
                      [group_id |-> 2, user_id |-> 3]}
  /\ friendships = {}
  /\ expenses = {}
  /\ expense_participants = {}
  /\ settlements = {}
  /\ activities = {}
  /\ user = [b \in {1} |-> 1]
  /\ page = [b \in {1} |-> "addExpense"]
  /\ ae = [b \in {1} |-> AeInit]
  /\ dash = [b \in {1} |-> DashNone]
  /\ su = [b \in {1} |-> SuNone]
  /\ fr = [b \in {1} |-> FrNone]
  /\ gr = [b \in {1} |-> GrInit]

SpecTwoGroups == InitTwoGroups /\ [][AddExpenseNext]_vars

\* Settle Up over a store that three Add Expense submissions of users 1 and
\* 2 have written: each expense is split between the two of them
NetExpenseIds == {1, 2, 3}
NetAmounts == {20, 40, 60}

InitNet ==
  /\ profileId = [w \in Users |-> w]
  /\ groups = {[id |-> 1, created_by |-> 1]}
  /\ group_members = {[group_id |-> 1, user_id |-> w] : w \in {1, 2}}
  /\ \E paid \in [NetExpenseIds -> {1, 2}], amt \in [NetExpenseIds -> NetAmounts] :
        /\ expenses = {[id |-> i, amount |-> amt[i], paid_by |-> paid[i],
                        group_id |-> 1] : i \in NetExpenseIds}
        /\ expense_participants =
             UNION {ParticipantRows([amount |-> amt[i], description |-> TRUE,
                                     participants |-> {1, 2}, group_id |-> 1,
                                     expense_id |-> i]) : i \in NetExpenseIds}
  /\ friendships = {}
  /\ settlements = {}
  /\ activities = {}
  /\ user \in [{1} -> {1, 2}]
  /\ page = [b \in {1} |-> "settleUp"]
  /\ ae = [b \in {1} |-> AeInit]
  /\ dash = [b \in {1} |-> DashNone]
  /\ su = [b \in {1} |-> SuLoading]
  /\ fr = [b \in {1} |-> FrNone]
  /\ gr = [b \in {1} |-> GrInit]

NextNet ==
  \/ \E b \in Browsers, ok \in BOOLEAN : fetchDebts(b, ok)
  \/ \E b \in Browsers, ok \in BOOLEAN : fetchOwed(b, ok)

SpecNet == InitNet /\ [][NextNet]_vars

\* the split: one browser on the Add Expense page recording expenses of
\* every amount up to MaxAmountCents among every choice of participants
InitSplit ==
  /\ InitStore(Users)
  /\ user = [b \in {1} |-> 1]
  /\ page = [b \in {1} |-> "addExpense"]
  /\ ae = [b \in {1} |-> AeInit]
  /\ dash = [b \in {1} |-> DashNone]
  /\ su = [b \in {1} |-> SuNone]
  /\ fr = [b \in {1} |-> FrNone]
  /\ gr = [b \in {1} |-> GrInit]

NextSplit ==
  \/ \E b \in Browsers, g \in {x.id : x \in groups} : handleGroupChange(b, g)
  \/ \E b \in Browsers, g \in {x.id : x \in groups}, ok \in BOOLEAN :
        fetchGroupMembers(b, g, ok)
  \/ \E b \in Browsers, p \in ProfileIds : toggleParticipant(b, p)
  \/ \E b \in Browsers, a \in SplitAmounts, d \in BOOLEAN : handleSubmit(b, a, d)
  \/ \E b \in Browsers, ok \in BOOLEAN : handleSubmitExpense(b, ok)
  \/ \E b \in Browsers, ok \in BOOLEAN : handleSubmitParticipants(b, ok)

SpecSplit == InitSplit /\ [][NextSplit]_vars

\* the three forms: user 1 in one browser goes between Add Expense, Settle
\* Up and Friends, in a group with user 2
InitForms ==
  /\ InitStore({1, 2})
  /\ profileId[3] = 3
  /\ user = [b \in {1} |-> 1]
  /\ page = [b \in {1} |-> "friends"]
  /\ ae = [b \in {1} |-> AeInit]
  /\ dash = [b \in {1} |-> DashNone]
  /\ su = [b \in {1} |-> SuNone]
  /\ fr = [b \in {1} |-> FrInit]
  /\ gr = [b \in {1} |-> GrInit]

NextForms ==
  \/ AddExpenseNext
  \/ SettleUpNext
  \/ NextFriends
  \/ \E b \in Browsers, p \in {"addExpense", "settleUp", "friends"} : Open(b, p)

SpecForms == InitForms /\ [][NextForms]_vars

\* the dashboard of user 1 is loading in one browser while user 2 is on
\* Add Expense in another
InitDashboardRace ==
  /\ InitStore(Users)
  /\ user = [b \in {1, 2} |-> b]
  /\ page = [b \in {1, 2} |-> IF b = 1 THEN "dashboard" ELSE "addExpense"]
  /\ ae = [b \in {1, 2} |-> AeInit]
  /\ dash = [b \in {1, 2} |-> IF b = 1 THEN DashLoading ELSE DashNone]
  /\ su = [b \in {1, 2} |-> SuNone]
  /\ fr = [b \in {1, 2} |-> FrNone]
  /\ gr = [b \in {1, 2} |-> GrInit]

NextDashboardRace ==
  \/ AddExpenseNext
  \/ DashboardNext

SpecDashboardRace == InitDashboardRace /\ [][NextDashboardRace]_vars

\* Friends list: two browsers open the Friends page over a store that holds
\* friendships rows between users, some of them accepted (the UPDATE policy
\* of friendships lets either side set the status; no page does)
FriendshipRows ==
  {f \in [user_id : Users, friend_id : Users,
           status : {"pending", "accepted"}] : f.user_id # f.friend_id}

InitFriendsList ==
  /\ profileId \in ProfileIdChoices
  /\ groups = {}
  /\ group_members = {}
  /\ friendships \in
       {F \in SUBSET FriendshipRows :
          /\ Cardinality(F) <= MaxFriendships
          /\ \A f \in F, g \in F :
                (f.user_id = g.user_id /\ f.friend_id = g.friend_id) => f = g}
  /\ expenses = {}
  /\ expense_participants = {}
  /\ settlements = {}
  /\ activities = {}
  /\ InitBrowsers("friends")

NextFriendsList ==
  \E b \in Browsers, ok \in BOOLEAN : fetchFriends(b, ok)

SpecFriendsList == InitFriendsList /\ [][NextFriendsList]_vars

\* -------------------------------------------------------------- properties
\* the participant rows of an expense
RowsOf(e) == {r \in expense_participants : r.expense_id = e.id}

\* the dashboard of browser b shows the result of a fetch without errors
DashboardShown(b) ==
  page[b] = "dashboard" /\ dash[b].pc = "done" /\ ~dash[b].failed

\* the store holds one expense, of 300, paid by uid and split among three
\* participants that include uid
PaidThreeHundredAmongThree(uid) ==
  \E e \in expenses :
     /\ expenses = {e}
     /\ e.paid_by = uid /\ e.amount = 300
     /\ Cardinality(RowsOf(e)) = 3
     /\ \E r \in RowsOf(e) : r.user_id = uid

\* C1: after a payer creates an expense of 300 split among 3 participants
\* that include the payer (no other expense exists, so both totals were 0
\* before), every participant row is owed 100, the payer's dashboard
\* total_owed is the others' shares, 200, and total_owing is still 0.
C1_PayerOwedRisesByOthersShares ==
  \A b \in Browsers :
     DashboardShown(b) /\ PaidThreeHundredAmongThree(user[b])
     => /\ \A r \in expense_participants : r.amount_owed = 100
        /\ dash[b].balances.total_owed = 200
        /\ dash[b].balances.total_owing = 0

\* C4: in every reachable state of the store every expense row has
\* participant rows.
C4_ExpenseHasParticipants ==
  \A e \in expenses : RowsOf(e) # {}

AddExpenseStep(b, share(_, _, _)) ==
  /\ ae[b].pc = "idle" /\ ae'[b].pc = "expense"
     => /\ ae'[b].pending.participants = ae[b].selectedParticipants
        /\ ae'[b].pending.group_id = ae[b].selectedGroup
  /\ ae[b].pc = "expense" /\ expenses' # expenses
     => \E e \in expenses' \ expenses :
           /\ expenses' = expenses \cup {e}
           /\ e.paid_by = user[b]
           /\ e.group_id = ae[b].pending.group_id
           /\ e.amount = ae[b].pending.amount
           /\ ae'[b].pending.expense_id = e.id
  /\ ae[b].pc = "participants" /\ page'[b] = "dashboard"
     => LET new == expense_participants' \ expense_participants
            e == CHOOSE x \in expenses : x.id = ae[b].pending.expense_id
            N == Cardinality(ae[b].pending.participants)
        IN  /\ expenses' = expenses
            /\ expense_participants \subseteq expense_participants'
            /\ Cardinality(new) = N
            /\ {r.user_id : r \in new} = ae[b].pending.participants
            /\ \A r \in new : /\ r.expense_id = e.id
                              /\ ~r.is_settled
                              /\ share(r.amount_owed, e.amount, N)

ExactShare(o, a, n) == o * n = a
NearestCent(o, a, n) == 2 * Abs(n * o - a) <= n

\* C3 (as stated): when Add Expense succeeds with amount A and N selected
\* participants, exactly N participant rows are inserted for the new
\* expense, one per selected identity, each with amount_owed = A / N and
\* is_settled = false, and the expense row has paid_by = the current user
\* and group_id = the selected group.
C3_RowsExactShare ==
  [][\A b \in Browsers : AddExpenseStep(b, ExactShare)]_vars

\* C3 (amended): the same, with amount_owed = A / N rounded to the nearest
\* cent, which is A / N when N divides A in cents.
C3_RowsNearestCent ==
  [][\A b \in Browsers : AddExpenseStep(b, NearestCent)]_vars

\* a successful Add Expense of an odd number of cents between two
\* participants
C3_Witness ==
  \E b \in Browsers, e \in expenses :
     /\ page[b] = "dashboard"
     /\ e.paid_by = user[b]
     /\ Cardinality(RowsOf(e)) = 2
     /\ e.amount % 2 = 1

\* C10: for every expense of amount A split N ways, the sum of the stored
\* amount_owed of its rows differs from A by at most half a cent per
\* participant, and is exactly A when N divides A in cents.
C10_SumOfSharesNearAmount ==
  \A e \in expenses :
     RowsOf(e) # {}
     => LET N == Cardinality(RowsOf(e))
            sum == SumOwed(RowsOf(e))
        IN  /\ 2 * Abs(sum - e.amount) <= N
            /\ e.amount % N = 0 => sum = e.amount

\* an expense split three ways whose shares do not add up to its amount
C10_Witness ==
  \E e \in expenses :
     /\ Cardinality(RowsOf(e)) = 3
     /\ SumOwed(RowsOf(e)) # e.amount

\* the unsettled shares that debtor owes on the expenses paid by payer
UnsettledShares(debtor, payer) ==
  {r \in expense_participants :
      /\ r.user_id = debtor /\ ~r.is_settled
      /\ \E e \in expenses : e.id = r.expense_id /\ e.paid_by = payer}

\* the signed net amount of counterparty c for uid: what c owes uid counts
\* positively, what uid owes c negatively
NetAmount(uid, c) ==
  SumOwed(UnsettledShares(c, uid)) - SumOwed(UnsettledShares(uid, c))

\* C2: the ledger set by fetchDebtsAndSettlements (unless a query fails,
\* which leaves the list as it was) has, for each counterparty c, one entry
\* whose amount is the sum of the unsettled shares c owes on expenses paid
\* by the current user minus the sum of the unsettled shares the user owes
\* on expenses paid by c, entries that net to zero being dropped.
C2_LedgerSigns ==
  [][\A b \in Browsers :
        su[b].pc = "owed" /\ su'[b].pc = "ready" /\ su'[b].debts # su[b].debts
        => \A c \in Users \ {user[b]} :
              /\ c \in DOMAIN su'[b].debts
                 => su'[b].debts[c] = FRound(NetAmount(user[b], c), 0)
              /\ NetAmount(user[b], c) # 0 => c \in DOMAIN su'[b].debts]_vars

\* C7: after the user records a settlement to a counterparty for the full
\* amount shown for it (another user), the refreshed Settle Up list does not
\* show that counterparty.
C7_FullSettlementClearsDebt ==
  \A b \in Browsers :
     /\ page[b] = "settleUp" /\ su[b].pc = "ready"
     /\ su[b].settledWith # Null /\ su[b].settledWith # user[b]
     => su[b].settledWith \notin DOMAIN su[b].debts

\* C8: a step that records a settlement adds one settlements row and leaves
\* expenses and expense_participants as they were, so the balances the
\* dashboard computes are the same for every user.
C8_SettlementChangesOnlySettlements ==
  [][settlements' # settlements
     => /\ \E row \in settlements' \ settlements :
              settlements' = settlements \cup {row}
        /\ expenses' = expenses
        /\ expense_participants' = expense_participants
        /\ \A uid \in Users : Balances(uid)' = Balances(uid)]_vars

\* a settlement recorded towards a counterparty who still has an unsettled
\* share on an expense paid by the settling user
C8_Witness ==
  \E row \in settlements :
     /\ UnsettledShares(row.to_user, row.from_user) # {}
     /\ Balances(row.to_user).total_owed > 0

C6_OneFriendshipPerPair ==
  \A u, v \in Users :
     Cardinality({f \in friendships :
                     \/ f.user_id = u /\ f.friend_id = v
                     \/ f.user_id = v /\ f.friend_id = u}) <= 1

\* C11: Add Expense and Settle Up issue a write request only for a
\* submission with every required field and an amount > 0.
C11_ValidationBeforeWrite ==
  \A b \in Browsers :
     /\ ae[b].pc = "expense"
        => /\ ae[b].pending.amount > 0
           /\ ae[b].pending.description
           /\ ae[b].pending.group_id # NoGroup
           /\ ae[b].pending.participants # {}
     /\ su[b].settling
        => /\ su[b].pending.amount > 0
           /\ su[b].pending.description
           /\ su[b].pending.to_user # Null

\* C12: the balances the dashboard holds are never negative, and
\* net_balance is total_owed minus total_owing.
C12_BalancesNonNegative ==
  \A b \in Browsers :
     /\ dash[b].balances.total_owed >= 0
     /\ dash[b].balances.total_owing >= 0
     /\ dash[b].balances.net_balance =
           dash[b].balances.total_owed - dash[b].balances.total_owing

\* a dashboard of a user who owes all of what the first total counts
C12_Witness ==
  \E b \in Browsers :
     /\ DashboardShown(b)
     /\ dash[b].balances.total_owing > 0
     /\ dash[b].balances.net_balance = 0

\* C14: a user who submits Add Friend with their own email gets no insert
\* request, and no friendships row relates a user to themselves.
C14_NoSelfFriendship ==
  /\ \A b \in Browsers :
        fr[b].pc = "insert" => fr[b].pending.email # user[b]
  /\ \A f \in friendships : f.user_id # f.friend_id

C17_SettlementsAppendOnly ==
  [][/\ settlements \subseteq settlements'
     /\ \A s \in settlements' \ settlements :
           \E b \in Browsers :
              /\ su[b].settling
              /\ s.from_user = user[b]
              /\ s.to_user = su[b].pending.to_user
              /\ s.amount > 0
     /\ \A b \in Browsers :
           ~su[b].settling /\ su'[b].settling
             => su'[b].pending.to_user = su[b].selectedDebt.user_id]_vars

\* a settlement toward another user has been recorded
C17_Witness ==
  \E s \in settlements : s.to_user # s.from_user /\ s.amount > 0

\* C18: when the store rejects the participant rows of an expense it has
\* accepted, the step leaves the expense in place without rows, shows the
\* failure notice and stays on the form with the submission over; and a
\* step changes the store only while a submission is under way, which
\* only handleSubmit starts.
C18_FailedParticipantInsert ==
  [][\A b \in Browsers :
        /\ (/\ ae[b].pc = "participants"
            /\ ae'[b].pc # "participants"
            /\ expense_participants' = expense_participants)
           => /\ expenses' = expenses
              /\ \E e \in expenses' :
                    e.id = ae[b].pending.expense_id /\ RowsOf(e) = {}
              /\ ae'[b].notice = "Error"
              /\ page'[b] = "addExpense"
              /\ ae'[b].pc = "idle" /\ ~ae'[b].loading
        /\ ae[b].pc = "idle" => store' = store
        /\ (ae[b].pc = "idle" /\ ae'[b].pc # "idle")
           => ~ae[b].loading /\ ae'[b].loading /\ ae'[b].pc = "expense"]_vars

\* the form after a rejected participant insert: the failure notice, and
\* the latest expense without rows
C18_Witness ==
  \E b \in Browsers :
     /\ page[b] = "addExpense"
     /\ ae[b].pc = "idle" /\ ~ae[b].loading
     /\ ae[b].notice = "Error"
     /\ \E e \in expenses : e.id = Cardinality(expenses) /\ RowsOf(e) = {}

\* the tables read, directly or through the policies of the tables read,
\* when the policies of table t are evaluated
ReadsOnce(reads, S) == S \cup UNION {reads[t] : t \in S}
ReadsThrough(reads, t) ==
  ReadsOnce(reads, ReadsOnce(reads, ReadsOnce(reads, reads[t])))

\* the rows the store holds of a table
TableRows(t) ==
  CASE t = "group_members" -> group_members
    [] t = "groups" -> groups
    [] t = "expenses" -> expenses
    [] t = "expense_participants" -> expense_participants

\* C19: deciding whether a row of group_members is visible does not read
\* group_members, and in neither final policy set does deciding whether a
\* row of one of the four tables is visible lead back to that table.
C19_PoliciesAcyclic ==
  /\ \A r \in group_members :
        /\ "group_members" \notin MigrationPolicyReads["group_members"]
        /\ "group_members" \notin FixPolicyReads["group_members"]
  /\ \A t \in PolicyTables : \A r \in TableRows(t) :
        /\ t \notin ReadsThrough(MigrationPolicyReads, t)
        /\ t \notin ReadsThrough(FixPolicyReads, t)

\* C20: when the members of the selected group have been loaded, the
\* participant selection is the set of all users with a group_members row
\* of that group, the signed-in user among them; and a submission that
\* reaches the store carries a non-empty participant set.
C20_AllMembersSelected ==
  [][\A b \in Browsers :
        /\ \A g \in ae[b].fetching \ ae'[b].fetching :
              (/\ g = ae[b].selectedGroup /\ ae'[b].notice # "Error"
               /\ page'[b] = page[b] /\ user'[b] = user[b])
                => /\ ae'[b].selectedParticipants =
                        {gm.user_id : gm \in {m \in group_members :
                                                 m.group_id = g}}
                   /\ user[b] \in ae'[b].selectedParticipants
        /\ ae'[b].pc = "expense" => ae'[b].pending.participants # {}]_vars

\* C16: under the policy set of the migration and under that of
\* fix_database_policies.sql, a user may read an expenses row exactly when
\* the user paid it, is a member of its group, or has a participant row
\* on it.
C16_ExpenseReadable ==
  \A uid \in Users : \A e \in expenses :
     LET described ==
           \/ e.paid_by = uid
           \/ \E gm \in group_members :
                 gm.group_id = e.group_id /\ gm.user_id = uid
           \/ \E r \in expense_participants :
                 r.expense_id = e.id /\ r.user_id = uid
     IN  /\ CanViewExpense(uid, e) <=> described
         /\ CanViewExpenseFix(uid, e) <=> described

\* C13: when the unsettled shares the user owes a counterparty on the
\* counterparty's expenses and those the counterparty owes the user on the
\* user's expenses add up to the same amount, the Settle Up list has no
\* entry for the counterparty; and no entry of the list has amount zero.
C13_EqualDebtsNetToZero ==
  \A b \in Browsers :
     (page[b] = "settleUp" /\ su[b].pc = "ready")
     => /\ \A c \in Users \ {user[b]} :
              SumOwed(UnsettledShares(user[b], c))
                = SumOwed(UnsettledShares(c, user[b]))
              => c \notin DOMAIN su[b].debts
        /\ \A c \in DOMAIN su[b].debts : ~FIsZero(su[b].debts[c])

\* C21: a friendships row created by Add Friend has the requesting user as
\* user_id and status 'pending'; no step changes or removes a friendships
\* row, so its status stays 'pending'; and no friends list on display has
\* an entry for the pair of a pending row.
C21_PendingForever ==
  [][/\ \A f \in friendships' \ friendships :
           /\ f.status = "pending"
           /\ \E b \in Browsers :
                 /\ fr[b].pc = "insert"
                 /\ f.user_id = user[b]
                 /\ f.friend_id = fr[b].pending.friend_id
     /\ friendships \subseteq friendships'
     /\ \A f \in friendships' : f.status = "pending" =>
           \A b \in Browsers : \A e \in fr'[b].friends :
              {user'[b], e.id} # {f.user_id, f.friend_id}]_vars

\* a request from the user of browser 1 to the user of browser 2 is stored,
\* browser 1 has read its list again after the insert and browser 2 has
\* read its list
C21_Witness ==
  /\ user[1] # user[2]
  /\ \E f \in friendships :
        f.user_id = user[1] /\ f.friend_id = user[2] /\ f.status = "pending"
  /\ \A b \in Browsers :
        ~fr[b].loading /\ fr[b].fetching = 0 /\ fr[b].pc = "idle"

\* C22: when fetchFriends succeeds for user u, the list has exactly one
\* entry for each accepted friendships row with u on either side, the
\* entry carries the id of the other side of its row, and there is no
\* other entry; and v is in the list exactly when u is in the list that
\* fetchFriends yields for v.
C22_FriendsSymmetric ==
  [][\A b \in Browsers :
        (fr'[b].fetching < fr[b].fetching /\ fr'[b].notice # "Error")
        => LET u == user[b]
               list == fr'[b].friends
               mine == {f \in friendships :
                          f.status = "accepted" /\ u \in {f.user_id, f.friend_id}}
           IN  /\ \A f \in mine : Cardinality({e \in list : e.row = f}) = 1
               /\ \A e \in list :
                     /\ e.row \in mine
                     /\ {u, e.id} = {e.row.user_id, e.row.friend_id}
               /\ \A v \in Users :
                     (\E e \in list : e.id = v)
                       <=> (\E e \in FriendsList(v) : e.id = u)]_vars

\* two different users with an accepted row between them, requested by the
\* user of browser 2, and each has the other in the list on display
C22_Witness ==
  /\ user[1] # user[2]
  /\ \E f \in friendships :
        f.status = "accepted" /\ f.user_id = user[2] /\ f.friend_id = user[1]
  /\ \E e \in fr[1].friends : e.id = user[2]
  /\ \E e \in fr[2].friends : e.id = user[1]

\* C23: when the profile lookup of Add Friend is answered for an email that
\* no profile has, the handler ends with the 'User Not Found' toast, the
\* friendships table is unchanged, the form is as open and its input as
\* filled as before the answer, and addingFriend is false.
C23_UserNotFound ==
  [][\A b \in Browsers :
        (/\ fr[b].pc = "lookup" /\ fr'[b].pc # "lookup"
         /\ fr[b].pending.email \notin Users)
        => /\ fr'[b].notice = "User Not Found"
           /\ fr'[b].pc = "idle"
           /\ friendships' = friendships
           /\ fr'[b].showAddFriend = fr[b].showAddFriend
           /\ fr'[b].newFriendEmail = fr[b].newFriendEmail
           /\ ~fr'[b].addingFriend]_vars

\* the lookup of an unknown email has just been answered: the form is open
\* with the email in it and the toast is up
C23_Witness ==
  \E b \in Browsers :
     /\ fr[b].notice = "User Not Found"
     /\ fr[b].showAddFriend
     /\ fr[b].newFriendEmail = NoSuchEmail
     /\ ~fr[b].addingFriend
     /\ friendships = {}

\* C24: every participant row has is_settled = false; no step removes or
\* changes a participant row, so the unsettled rows of every user only
\* grow; and the total_owed and total_owing that the store yields for a
\* user never decrease.
C24_NothingIsSettled ==
  [][/\ \A r \in expense_participants' : ~r.is_settled
     /\ <<expenses, expense_participants, group_members>>'
           # <<expenses, expense_participants, group_members>>
        => \A uid \in Users :
              /\ {r \in expense_participants :
                    r.user_id = uid /\ ~r.is_settled}
                   \subseteq
                 {r \in expense_participants' :
                    r.user_id = uid /\ ~r.is_settled}
              /\ Balances(uid).total_owed <= Balances(uid)'.total_owed
              /\ Balances(uid).total_owing <= Balances(uid)'.total_owing]_vars

\* a settlement from a user to another has been recorded while the payer's
\* share on an expense of the other is in the store, unsettled
C24_Witness ==
  \E s \in settlements : \E r \in expense_participants :
     /\ r.user_id = s.from_user
     /\ PaidBy(r) = s.to_user
     /\ ~r.is_settled

\* C25: whenever a settlement row is written, the unsettled shares of
\* from_user on expenses paid by to_user add up to more than the unsettled
\* shares of to_user on expenses paid by from_user; and the entries of the
\* list that carry the Settle Up button and the 'You owe' label (amount
\* below zero) are those of the other users for whom this is so.
C25_SettleTowardCreditor ==
  [][/\ \A s \in settlements' \ settlements :
           s.to_user # s.from_user
           => SumOwed(UnsettledShares(s.from_user, s.to_user))
                > SumOwed(UnsettledShares(s.to_user, s.from_user))
     /\ \A b \in Browsers :
           (su[b].pc = "owed" /\ su'[b].pc = "ready"
            /\ su'[b].debts # su[b].debts)
           => \A c \in DOMAIN su'[b].debts \ {user[b]} :
                 FNegative(su'[b].debts[c])
                   <=> SumOwed(UnsettledShares(user[b], c))
                         > SumOwed(UnsettledShares(c, user[b]))]_vars

\* C26: the Settle Up list of a user has no entry for the user, and no
\* settlements row has from_user equal to to_user.
C26_NoSelfCounterparty ==
  /\ \A b \in Browsers : user[b] \notin DOMAIN su[b].debts
  /\ \A s \in settlements : s.from_user # s.to_user

\* C27: every participant row belongs to a member of the group of its
\* expense, and the participants of a submission in progress are members
\* of the group the submission is for.
C27_ParticipantsAreMembers ==
  /\ \A r \in expense_participants : \A e \in expenses :
        e.id = r.expense_id
        => \E gm \in group_members :
              gm.group_id = e.group_id /\ gm.user_id = r.user_id
  /\ \A b \in Browsers :
        ae[b].pc # "idle"
        => \A p \in ae[b].pending.participants :
              \E gm \in group_members :
                 gm.group_id = ae[b].pending.group_id /\ gm.user_id = p

\* C28: a dashboard whose two balance reads were both answered without
\* error shows total_owing no greater than total_owed, so its net_balance
\* is not negative and it does not read 'Overall, you owe'.
C28_NetBalanceNonNegative ==
  \A b \in Browsers :
     DashboardShown(b)
     => /\ dash[b].balances.total_owing <= dash[b].balances.total_owed
        /\ dash[b].balances.net_balance >= 0

\* C29: the identities of a submission that has passed the client's checks
\* and is waiting for the store are ids of auth users: the participants of
\* an expense, the friend_id of a friend request and the to_user of a
\* settlement.
C29_ReferencesExist ==
  \A b \in Browsers :
     /\ ae[b].pc # "idle" => ae[b].pending.participants \subseteq Users
     /\ fr[b].pc = "insert" => fr[b].pending.friend_id \in Users
     /\ su[b].settling => su[b].pending.to_user \in Users

====
